---- MODULE Spec2Model ----
(***************************************************************************)
(* The private-library listing session (src/app/private-library/page.tsx)  *)
(* and the Emby listing endpoint (GET /api/emby/list).                     *)
(*                                                                         *)
(* Spec      : one browser session of PrivateLibraryPage.  React state and *)
(*             refs are variables; a commit (render + its effects, run in  *)
(*             declaration order with the render's closure values) is one  *)
(*             step; responses of fetches arrive in any order.             *)
(* RouteSpec : the GET handler of the endpoint with its cache.             *)
(***************************************************************************)
EXTENDS Integers, Sequences, FiniteSets, TLC

(* ------------------------------ bounds -------------------------------- *)
\* the incremental-load trigger is not fired beyond this page
MaxPage == 4
\* clicks and trigger firings in one session
MaxEvents == 2
\* a click or a trigger firing finds at most this many list requests in flight
\* (aborted ones included)
MaxPending == 1

\* items of the upstream library of one listing
MaxItems == 3
\* pages requested of one listing
MaxFetch == 4
\* largest pageSize of one listing
MaxLimit == 2

(* ------------------------- program constants -------------------------- *)
pageSize == 20

None == "undefined"
ErrFetch == "fetch video list failed"
ErrData == "data.error"

Sources == {"openlist", "emby", "xiaoya"}
\* what /api/emby/sources answers: the configured instances, in order
EmbySources == <<"e1", "e2">>
Views == {"all", "v1"}
SortFields == {"SortName", "DateCreated"}
Paths == {"/", "/a"}
\* values of the URL parameter source, as token sequences (<<>>: no parameter)
UrlSources == {<<>>, <<"emby", ":", "e2">>}
\* no router.replace is under way
NoNav == [source |-> <<"-">>, view |-> "-"]

VARIABLES
    sourceType, embyKey, embySourceOptions, videos, loading, loadingMore,
    error, page, hasMore, selectedView, sortBy, sortOrder, xiaoyaPath,
    xiaoyaFolders, xiaoyaFiles,
    isFetchingRef, abortControllerRef, isInitializedRef,
    searchParams, runtimeConfig,
    requests, sourcesFetches, pendingNav, observer, rendered, dirty, mounted,
    nEvents, ev,
    \* the endpoint: the cache of emby-cache, the clock, the upstream library
    \* size, the resolvable instances, the handlers in flight and the completed ones
    cache, clock, library, available, handlers, history,
    \* one listing fetched page by page: the upstream library, the pageSize and
    \* the upstream results with the responses built from them
    catalog, limit, answers

vars == <<sourceType, embyKey, embySourceOptions, videos, loading, loadingMore,
          error, page, hasMore, selectedView, sortBy, sortOrder, xiaoyaPath,
          xiaoyaFolders, xiaoyaFiles,
          isFetchingRef, abortControllerRef, isInitializedRef,
          searchParams, runtimeConfig,
          requests, sourcesFetches, pendingNav, observer, rendered, dirty, mounted,
          nEvents, ev, cache, clock, library, available, handlers, history,
          catalog, limit, answers>>

routeVars == <<cache, clock, library, available, handlers, history>>

listingVars == <<catalog, limit, answers>>

sessionVars ==
    <<sourceType, embyKey, embySourceOptions, videos, loading, loadingMore,
      error, page, hasMore, selectedView, sortBy, sortOrder, xiaoyaPath,
      xiaoyaFolders, xiaoyaFiles,
      isFetchingRef, abortControllerRef, isInitializedRef,
      searchParams, runtimeConfig,
      requests, sourcesFetches, pendingNav, observer, rendered, dirty, mounted,
      nEvents, ev>>

(* ------------------------------ helpers ------------------------------- *)
Min(a, b) == IF a < b THEN a ELSE b
Max(a, b) == IF a > b THEN a ELSE b
\* mutant: Math.floor instead of Math.ceil
Floor(a, b) == a \div b

\* Math.ceil(a / b) for a >= 0, b > 0
Ceil(a, b) == (a + b - 1) \div b

\* the whole session as one record
Cur ==
    [sourceType |-> sourceType, embyKey |-> embyKey,
     embySourceOptions |-> embySourceOptions, videos |-> videos,
     loading |-> loading, loadingMore |-> loadingMore, error |-> error,
     page |-> page, hasMore |-> hasMore, selectedView |-> selectedView,
     sortBy |-> sortBy, sortOrder |-> sortOrder, xiaoyaPath |-> xiaoyaPath,
     xiaoyaFolders |-> xiaoyaFolders, xiaoyaFiles |-> xiaoyaFiles,
     isFetchingRef |-> isFetchingRef, abortControllerRef |-> abortControllerRef,
     isInitializedRef |-> isInitializedRef, searchParams |-> searchParams,
     requests |-> requests, sourcesFetches |-> sourcesFetches,
     pendingNav |-> pendingNav,
     observer |-> observer, rendered |-> rendered, dirty |-> dirty]

\* the React state (and the URL) of a session record: a change of it asks for a render
StateOf(s) ==
    <<s.sourceType, s.embyKey, s.embySourceOptions, s.videos, s.loading,
      s.loadingMore, s.error, s.page, s.hasMore, s.selectedView, s.sortBy,
      s.sortOrder, s.xiaoyaPath, s.xiaoyaFolders, s.xiaoyaFiles, s.searchParams>>

\* the sentinel <div ref={observerTarget}> is part of the rendered output
SentinelRendered(c) ==
    ~c.loading /\ c.sourceType # "xiaoya" /\ c.videos # <<>>

\* the values a render hands to the dependency arrays of its effects
DepsOf(c) ==
    [sourceType |-> c.sourceType, embyKey |-> c.embyKey, page |-> c.page,
     selectedView |-> c.selectedView, xiaoyaPath |-> c.xiaoyaPath,
     sortBy |-> c.sortBy, sortOrder |-> c.sortOrder, hasMore |-> c.hasMore,
     loadingMore |-> c.loadingMore, loading |-> c.loading,
     searchParams |-> c.searchParams, optLen |-> Len(c.embySourceOptions)]

NoObserver == [on |-> FALSE, hasMore |-> FALSE, loadingMore |-> FALSE, loading |-> FALSE]
NoReq ==
    [id |-> 0, aborted |-> FALSE, sourceType |-> "", embyKey |-> "", page |-> 0,
     selectedView |-> "", sortBy |-> "", sortOrder |-> "", xiaoyaPath |-> ""]
\* ev: the last click, trigger firing or response (a history variable); fresh
\* until the next commit
NoEv == [type |-> "init", r |-> NoReq, out |-> "", fresh |-> FALSE]


(* ----------------------- upstream and responses ----------------------- *)
\* the identity under which a list request was issued (its closure values)
QueryOf(r) == <<r.sourceType, r.embyKey, r.selectedView, r.sortBy, r.sortOrder>>

\* the upstream library of a query: the library "v1" is empty, the others
\* hold 45 items
TotalRecordCount(q) == IF q[3] = "v1" THEN 0 ELSE 45

\* an optional field of an upstream item: <<>> when missing, <<v>> when v
Missing == <<>>

\* the Type, ProductionYear and CommunityRating an upstream item may carry
ItemTypes == {"Movie", "Series", "BoxSet"}
ProductionYears == {Missing, <<1999>>}
CommunityRatings == {Missing, <<0>>, <<7>>}
ItemKinds ==
    [Type : ItemTypes, ProductionYear : ProductionYears,
     CommunityRating : CommunityRatings]

\* the upstream item at position pos of the library of q
UpstreamItem(q, pos, kind) ==
    [Id |-> <<q, pos>>, Name |-> <<"name", pos>>, Type |-> kind.Type,
     ProductionYear |-> kind.ProductionYear,
     CommunityRating |-> kind.CommunityRating]

\* the libraries of the session and of the endpoint: a movie, a series without
\* year and rating, a box set rated 0, and so on
KindAt(pos) ==
    IF pos % 3 = 0
    THEN [Type |-> "Movie", ProductionYear |-> <<1999>>, CommunityRating |-> <<7>>]
    ELSE IF pos % 3 = 1
    THEN [Type |-> "Series", ProductionYear |-> Missing, CommunityRating |-> Missing]
    ELSE [Type |-> "BoxSet", ProductionYear |-> <<1999>>, CommunityRating |-> <<0>>]

LibraryOf(q, total) == [k \in 1..total |-> UpstreamItem(q, k - 1, KindAt(k - 1))]

\* the items of lib at positions StartIndex .. StartIndex + Limit - 1
Window(lib, StartIndex, Limit) ==
    SubSeq(lib, StartIndex + 1, Min(StartIndex + Limit, Len(lib)))

\* client.getItems({StartIndex, Limit, ...}) on the library lib
GetItemsFrom(lib, StartIndex, Limit) ==
    [Items |-> Window(lib, StartIndex, Limit), TotalRecordCount |-> Len(lib)]

\* mutant: the window is not limited to Limit items
GetItemsUnlimited(q, StartIndex, Limit, total) ==
    GetItemsFrom(LibraryOf(q, total), StartIndex, total)

\* client.getItems({StartIndex, Limit, ...}): a window of the library of q
GetItems(q, StartIndex, Limit, total) ==
    GetItemsFrom(LibraryOf(q, total), StartIndex, Limit)

\* Number.prototype.toString for n >= 0: the decimal digits of n
RECURSIVE toString(_)
toString(n) == IF n < 10 THEN <<n>> ELSE Append(toString(n \div 10), n % 10)

\* client.getImageUrl(item.Id, 'Primary')
getImageUrl(id, imageType) == <<"image", id, imageType>>

\* mutant: every Type but 'Series' counts as a movie
NormalizeItemSeriesOnly(item) ==
    [id |-> item.Id,
     title |-> item.Name,
     poster |-> getImageUrl(item.Id, "Primary"),
     year |-> IF item.ProductionYear = Missing THEN <<>>
              ELSE toString(item.ProductionYear[1]),
     rating |-> IF item.CommunityRating = Missing THEN 0
                ELSE item.CommunityRating[1],
     mediaType |-> IF item.Type = "Series" THEN "tv" ELSE "movie"]

\* one upstream item in the common item shape; the empty string is <<>>
NormalizeItem(item) ==
    [id |-> item.Id,
     title |-> item.Name,
     poster |-> getImageUrl(item.Id, "Primary"),
     year |-> IF item.ProductionYear = Missing THEN <<>>
              ELSE toString(item.ProductionYear[1]),
     rating |-> IF item.CommunityRating = Missing THEN 0
                ELSE item.CommunityRating[1],
     mediaType |-> IF item.Type = "Movie" THEN "movie" ELSE "tv"]

\* mutant: the window of page p starts at p * pageSize
StartIndexFromPage(p, size) == p * size

\* StartIndex: (page - 1) * pageSize
StartIndexOf(p, size) == (p - 1) * size

\* the success response built from an upstream result
ListResponse(result, p, size) ==
    [success |-> TRUE,
     error |-> "",
     list |-> [k \in 1..Len(result.Items) |-> NormalizeItem(result.Items[k])],
     totalPages |-> Ceil(result.TotalRecordCount, size),
     currentPage |-> p,
     total |-> result.TotalRecordCount]

\* GET /api/emby/list, the fetch path: window, normalisation, totalPages
ListSuccess(q, p, size, total) ==
    ListResponse(GetItems(q, StartIndexOf(p, size), size, total), p, size)

\* mutant: the catch branch answers page 1 whatever was requested
ListFailurePageOne(p) ==
    [success |-> FALSE, error |-> ErrData, list |-> <<>>, totalPages |-> 0,
     currentPage |-> 1, total |-> 0]

\* GET /api/emby/list, the catch branch
ListFailure(p) ==
    [success |-> FALSE, error |-> ErrData, list |-> <<>>, totalPages |-> 0,
     currentPage |-> p, total |-> 0]

\* /api/xiaoya/browse?path=...
XiaoyaBrowse(path) ==
    [error |-> "",
     folders |-> IF path = "/" THEN <<[name |-> "a", path |-> "/a"]>> ELSE <<>>,
     files |-> <<[name |-> "f.mp4", path |-> path]>>]

(* --------------------------- fetchVideos ------------------------------ *)
\* mutant: the previous controller is left alone
AbortNothing(s) == s

\* AbortController.abort() on the controller the ref holds
AbortCurrent(s) ==
    [s EXCEPT !.requests =
        {IF r.id = s.abortControllerRef THEN [r EXCEPT !.aborted = TRUE] ELSE r : r \in @}]

\* new AbortController(): an identity no live controller has
NewController(s) ==
    CHOOSE i \in 1..(Cardinality(s.requests) + 2) :
        i # s.abortControllerRef /\ \A r \in s.requests : r.id # i

\* mutant: no source counts as disabled
NeverDisabled(c) == FALSE

\* mutant: only the emby test is made
DisabledEmbyOnly(c) ==
    c.sourceType = "emby" /\ (~runtimeConfig.EMBY_ENABLED \/ c.embyKey = None)

\* the three tests before a request is made: the source of the render is not
\* configured, or it is emby and no embyKey is set
SourceDisabled(c) ==
    \/ c.sourceType = "openlist" /\ ~runtimeConfig.OPENLIST_ENABLED
    \/ c.sourceType = "emby" /\ (~runtimeConfig.EMBY_ENABLED \/ c.embyKey = None)
    \/ c.sourceType = "xiaoya" /\ ~runtimeConfig.XIAOYA_ENABLED

\* what fetchVideos does before it returns for a source that is not configured
NotConfigured(s) == [s EXCEPT !.loading = FALSE]

\* the synchronous part of fetchVideos, up to `await fetch(endpoint, {signal})`
FetchVideos(c, s) ==
    LET isInitial == c.page = 1
        s1 == AbortCurrent(s)
        off == NotConfigured(s1)
    IN IF SourceDisabled(c) THEN off
       ELSE LET id == NewController(s1)
                r == [id |-> id, aborted |-> FALSE, sourceType |-> c.sourceType,
                      embyKey |-> c.embyKey, page |-> c.page,
                      selectedView |-> c.selectedView, sortBy |-> c.sortBy,
                      sortOrder |-> c.sortOrder, xiaoyaPath |-> c.xiaoyaPath]
            IN [s1 EXCEPT !.abortControllerRef = id,
                          !.isFetchingRef = TRUE,
                          !.requests = @ \cup {r},
                          !.loading = IF isInitial THEN TRUE ELSE @,
                          !.loadingMore = IF isInitial THEN @ ELSE TRUE,
                          !.error = ""]

\* useEffect(fetchVideos, [sourceType, embyKey, page, selectedView, xiaoyaPath,
\* runtimeConfig, sortBy, sortOrder]); `run`: its dependencies changed
FetchVideosEffect(run, c, s) == IF run THEN FetchVideos(c, s) ELSE s

\* the effect's cleanup
FetchVideosCleanup(run, s) == IF run THEN AbortCurrent(s) ELSE s

\* what `await fetch` / `await response.json()` can give for request r
FetchOutcomes(r) == IF r.aborted THEN {"AbortError"} ELSE {"ok", "error", "http"}

\* mutant: the catch block without the AbortError test
CatchEveryError(r, s, name) ==
    [s EXCEPT !.error = ErrFetch,
              !.videos = IF r.page = 1 THEN <<>> ELSE @]

\* mutant: the catch block clears the list whatever the page
CatchClearsList(r, s, name) ==
    IF name = "AbortError" THEN s
    ELSE [s EXCEPT !.error = ErrFetch, !.videos = <<>>]

\* the catch block
Catch(r, s, name) ==
    IF name = "AbortError" THEN s
    ELSE [s EXCEPT !.error = ErrFetch,
                   !.videos = IF r.page = 1 THEN <<>> ELSE @]

\* mutant: the finally block clears only the ref
FinallyRefOnly(r, s) ==
    IF ~r.aborted THEN [s EXCEPT !.isFetchingRef = FALSE] ELSE s

\* the finally block
Finally(r, s) ==
    IF ~r.aborted
    THEN [s EXCEPT !.loading = IF r.page = 1 THEN FALSE ELSE @,
                   !.loadingMore = IF r.page = 1 THEN @ ELSE FALSE,
                   !.isFetchingRef = FALSE]
    ELSE s

\* the body a list endpoint answers for r when it answers without data.error
DataOf(r) ==
    IF r.sourceType = "xiaoya" THEN XiaoyaBrowse(r.xiaoyaPath)
    ELSE ListSuccess(QueryOf(r), r.page, pageSize, TotalRecordCount(QueryOf(r)))

\* mutant: hasMore computed with <= instead of <
ApplyDataOffByOne(r, s, data) ==
    IF data.error # ""
    THEN [s EXCEPT !.error = data.error,
                   !.videos = IF r.page = 1 THEN <<>> ELSE @]
    ELSE IF r.sourceType = "xiaoya"
    THEN [s EXCEPT !.xiaoyaFolders = data.folders,
                   !.xiaoyaFiles = data.files,
                   !.videos = <<>>,
                   !.hasMore = FALSE]
    ELSE [s EXCEPT !.videos = IF r.page = 1 THEN data.list ELSE @ \o data.list,
                   !.hasMore = r.page <= (IF data.totalPages = 0 THEN 1 ELSE data.totalPages)]

\* mutant: the xiaoya branch without setHasMore(false)
ApplyDataXiaoyaKeepsHasMore(r, s, data) ==
    IF data.error # ""
    THEN [s EXCEPT !.error = data.error,
                   !.videos = IF r.page = 1 THEN <<>> ELSE @]
    ELSE IF r.sourceType = "xiaoya"
    THEN [s EXCEPT !.xiaoyaFolders = data.folders,
                   !.xiaoyaFiles = data.files,
                   !.videos = <<>>]
    ELSE [s EXCEPT !.videos = IF r.page = 1 THEN data.list ELSE @ \o data.list,
                   !.hasMore = r.page < (IF data.totalPages = 0 THEN 1 ELSE data.totalPages)]

\* mutant: a later page is put before the existing items
ApplyDataPrepends(r, s, data) ==
    IF data.error # ""
    THEN [s EXCEPT !.error = data.error,
                   !.videos = IF r.page = 1 THEN <<>> ELSE @]
    ELSE IF r.sourceType = "xiaoya"
    THEN [s EXCEPT !.xiaoyaFolders = data.folders,
                   !.xiaoyaFiles = data.files,
                   !.videos = <<>>,
                   !.hasMore = FALSE]
    ELSE [s EXCEPT !.videos = IF r.page = 1 THEN data.list ELSE data.list \o @,
                   !.hasMore = r.page < (IF data.totalPages = 0 THEN 1 ELSE data.totalPages)]

\* the try block after the awaits, for a parsed body `data`
ApplyData(r, s, data) ==
    IF data.error # ""
    THEN [s EXCEPT !.error = data.error,
                   !.videos = IF r.page = 1 THEN <<>> ELSE @]
    ELSE IF r.sourceType = "xiaoya"
    THEN [s EXCEPT !.xiaoyaFolders = data.folders,
                   !.xiaoyaFiles = data.files,
                   !.videos = <<>>,
                   !.hasMore = FALSE]
    ELSE LET newVideos == data.list
             currentPage == r.page
             totalPages == IF data.totalPages = 0 THEN 1 ELSE data.totalPages
         IN [s EXCEPT !.videos = IF r.page = 1 THEN newVideos ELSE @ \o newVideos,
                      !.hasMore = currentPage < totalPages]

\* the continuation of fetchVideos for r once its fetch settles with `out`
Settle(r, s, out) ==
    LET s0 == [s EXCEPT !.requests = @ \ {r}]
        s1 == CASE out = "AbortError" -> Catch(r, s0, "AbortError")
                [] out = "http" -> Catch(r, s0, "Error")
                [] out = "error" -> ApplyData(r, s0, ListFailure(r.page))
                [] OTHER -> ApplyData(r, s0, DataOf(r))
    IN Finally(r, s1)

(* ------------------------------ effects ------------------------------- *)
\* position of the first ":" token of a parameter value, 0 if it has none
ColonAt(tokens) ==
    IF \E i \in 1..Len(tokens) : tokens[i] = ":"
    THEN CHOOSE i \in 1..Len(tokens) :
            tokens[i] = ":" /\ \A j \in 1..(i - 1) : tokens[j] # ":"
    ELSE 0

parseSourceParam(sourceParam) ==
    IF sourceParam = <<>> THEN [sourceType |-> "openlist", embyKey |-> None]
    ELSE IF ColonAt(sourceParam) > 0
    THEN LET i == ColonAt(sourceParam)
         IN [sourceType |-> IF i > 1 THEN sourceParam[1] ELSE "",
             embyKey |-> IF i < Len(sourceParam) /\ sourceParam[i + 1] # ":"
                         THEN sourceParam[i + 1] ELSE ""]
    ELSE [sourceType |-> sourceParam[1], embyKey |-> None]

\* useEffect(..., [searchParams, runtimeConfig]): state from the URL
UrlInitEffect(run, c, s) ==
    LET parsed == parseSourceParam(c.searchParams.source)
        forceEmby == ~runtimeConfig.OPENLIST_ENABLED /\ runtimeConfig.EMBY_ENABLED
    IN IF ~run THEN s
       ELSE [s EXCEPT !.sourceType = IF forceEmby THEN "emby"
                                     ELSE IF parsed.sourceType # "" THEN parsed.sourceType
                                     ELSE @,
                      !.embyKey = IF ~forceEmby /\ parsed.sourceType # ""
                                     /\ parsed.embyKey \notin {None, ""}
                                  THEN parsed.embyKey ELSE @,
                      !.isInitializedRef = TRUE]

\* useEffect(..., [sourceType]): fetchEmbySources, whose continuation reads
\* the embyKey of the render that started it
EmbySourcesEffect(run, c, s) ==
    IF run /\ c.sourceType = "emby"
    THEN [s EXCEPT !.sourcesFetches = @ \cup {c.embyKey = None}]
    ELSE s

\* useEffect(..., [sourceType, embyKey, selectedView, router, options.length]):
\* router.replace; a navigation still under way is discarded for the new one
UrlUpdateEffect(run, c, s) ==
    IF ~run \/ ~s.isInitializedRef THEN s
    ELSE [s EXCEPT !.pendingNav =
            [source |-> IF c.sourceType = "emby" /\ c.embyKey # None
                           /\ Len(c.embySourceOptions) > 1
                        THEN <<"emby", ":", c.embyKey>>
                        ELSE <<c.sourceType>>,
             view |-> IF c.sourceType = "emby" /\ c.selectedView # "all"
                      THEN c.selectedView ELSE ""]]

\* the statements the three reset effects share
ResetListing(s) ==
    [s EXCEPT !.page = 1, !.videos = <<>>, !.hasMore = TRUE, !.error = "",
              !.loading = FALSE, !.loadingMore = FALSE, !.isFetchingRef = FALSE]

\* mutant: the source reset without setVideos([])
SourceResetKeepsVideos(run, c, s) ==
    IF ~run \/ ~s.isInitializedRef THEN s
    ELSE [s EXCEPT !.page = 1, !.hasMore = TRUE, !.error = "", !.selectedView = "all",
                   !.loading = FALSE, !.loadingMore = FALSE, !.isFetchingRef = FALSE]

\* useEffect(..., [sourceType, embyKey])
SourceResetEffect(run, c, s) ==
    IF ~run \/ ~s.isInitializedRef THEN s
    ELSE [ResetListing(s) EXCEPT !.selectedView = "all"]

\* useEffect(..., [selectedView])
ViewResetEffect(run, c, s) ==
    IF ~run \/ ~s.isInitializedRef THEN s ELSE ResetListing(s)

\* useEffect(..., [sortBy, sortOrder, sourceType])
SortResetEffect(run, c, s) ==
    IF ~run \/ ~s.isInitializedRef THEN s
    ELSE IF c.sourceType # "emby" THEN s
    ELSE ResetListing(s)

\* useEffect(..., [hasMore, loadingMore, loading, page]): a new observer whose
\* callback closes over the render's flags, if the sentinel is in the output
ObserverEffect(run, c, s) ==
    IF ~run THEN s
    ELSE IF ~SentinelRendered(c) THEN [s EXCEPT !.observer = NoObserver]
    ELSE [s EXCEPT !.observer = [on |-> TRUE, hasMore |-> c.hasMore,
                                 loadingMore |-> c.loadingMore, loading |-> c.loading]]

\* the observer effect's cleanup (unobserve), or the sentinel left the output
ObserverCleanup(run, s) == IF run THEN [s EXCEPT !.observer = NoObserver] ELSE s

\* the end of a commit: the dependencies the render handed out, and whether
\* its effects set state, which asks for another render
Committed(c, s) ==
    [s EXCEPT !.rendered = DepsOf(c), !.dirty = StateOf(s) # StateOf(c)]

\* one commit: the render of s and the effects whose dependencies changed, the
\* cleanups first, then the effects in declaration order
Commit(s, mount) ==
    LET c == s
        p == s.rendered
        ch(fs) == mount \/ \E f \in fs : DepsOf(c)[f] # p[f]
        fetchDeps == {"sourceType", "embyKey", "page", "selectedView",
                      "xiaoyaPath", "sortBy", "sortOrder"}
        obsDeps == {"hasMore", "loadingMore", "loading", "page"}
        k1 == FetchVideosCleanup(~mount /\ ch(fetchDeps), s)
        k2 == ObserverCleanup(~SentinelRendered(c) \/ ch(obsDeps), k1)
        e1 == UrlInitEffect(ch({"searchParams"}), c, k2)
        e2 == EmbySourcesEffect(ch({"sourceType"}), c, e1)
        e3 == UrlUpdateEffect(ch({"sourceType", "embyKey", "selectedView", "optLen"}), c, e2)
        e4 == SourceResetEffect(ch({"sourceType", "embyKey"}), c, e3)
        e5 == ViewResetEffect(ch({"selectedView"}), c, e4)
        e6 == SortResetEffect(ch({"sortBy", "sortOrder", "sourceType"}), c, e5)
        e7 == FetchVideosEffect(ch(fetchDeps), c, e6)
        e8 == ObserverEffect(ch(obsDeps), c, e7)
    IN Committed(c, e8)

(* ------------------------------ actions ------------------------------- *)
Set(s, e) ==
    /\ sourceType' = s.sourceType
    /\ embyKey' = s.embyKey
    /\ embySourceOptions' = s.embySourceOptions
    /\ videos' = s.videos
    /\ loading' = s.loading
    /\ loadingMore' = s.loadingMore
    /\ error' = s.error
    /\ page' = s.page
    /\ hasMore' = s.hasMore
    /\ selectedView' = s.selectedView
    /\ sortBy' = s.sortBy
    /\ sortOrder' = s.sortOrder
    /\ xiaoyaPath' = s.xiaoyaPath
    /\ xiaoyaFolders' = s.xiaoyaFolders
    /\ xiaoyaFiles' = s.xiaoyaFiles
    /\ isFetchingRef' = s.isFetchingRef
    /\ abortControllerRef' = s.abortControllerRef
    /\ isInitializedRef' = s.isInitializedRef
    /\ searchParams' = s.searchParams
    /\ pendingNav' = s.pendingNav
    /\ requests' = s.requests
    /\ sourcesFetches' = s.sourcesFetches
    /\ observer' = s.observer
    /\ rendered' = s.rendered
    /\ dirty' = s.dirty
    /\ ev' = IF e.type \in {"mount", "render", "navigate"}
             THEN [ev EXCEPT !.fresh = FALSE] ELSE e
    /\ UNCHANGED runtimeConfig
    /\ UNCHANGED routeVars
    /\ UNCHANGED listingVars

Event(type) == [type |-> type, r |-> NoReq, out |-> "", fresh |-> TRUE]

\* no request has reached the endpoint
RouteIdle ==
    /\ cache = {}
    /\ clock = 0
    /\ library = 0
    /\ available = {}
    /\ handlers = {}
    /\ history = <<>>

\* no listing is fetched page by page
ListingIdle ==
    /\ catalog = <<>>
    /\ limit = pageSize
    /\ answers = <<>>

\* the state after construction: the useState/useRef initial values, for the
\* URLs in UrlSources and the runtime configurations in Configs
SessionInit(Urls, Configs) ==
    /\ sourceType = "openlist"
    /\ embyKey = None
    /\ embySourceOptions = <<>>
    /\ videos = <<>>
    /\ loading = TRUE
    /\ loadingMore = FALSE
    /\ error = ""
    /\ page = 1
    /\ hasMore = TRUE
    /\ selectedView = "all"
    /\ sortBy = "SortName"
    /\ sortOrder = "Ascending"
    /\ xiaoyaPath = "/"
    /\ xiaoyaFolders = <<>>
    /\ xiaoyaFiles = <<>>
    /\ isFetchingRef = FALSE
    /\ abortControllerRef = 0
    /\ isInitializedRef = FALSE
    /\ searchParams \in [source : Urls, view : {""}]
    /\ pendingNav = NoNav
    /\ runtimeConfig \in Configs
    /\ requests = {}
    /\ sourcesFetches = {}
    /\ observer = NoObserver
    /\ rendered = [sourceType |-> sourceType, embyKey |-> embyKey, page |-> page,
                   selectedView |-> selectedView, xiaoyaPath |-> xiaoyaPath,
                   sortBy |-> sortBy, sortOrder |-> sortOrder, hasMore |-> hasMore,
                   loadingMore |-> loadingMore, loading |-> loading,
                   searchParams |-> searchParams, optLen |-> Len(embySourceOptions)]
    /\ dirty = FALSE
    /\ mounted = FALSE
    /\ nEvents = 0
    /\ ev = NoEv

Init ==
    /\ SessionInit(UrlSources, [OPENLIST_ENABLED : BOOLEAN, EMBY_ENABLED : BOOLEAN,
                                XIAOYA_ENABLED : BOOLEAN])
    /\ RouteIdle
    /\ ListingIdle

\* the first commit: every effect runs
Mount ==
    /\ ~mounted
    /\ mounted' = TRUE
    /\ UNCHANGED nEvents
    /\ Set(Commit(Cur, TRUE), Event("mount"))

\* a render React scheduled for state set by an effect, a response or the trigger
Render ==
    /\ mounted /\ dirty
    /\ UNCHANGED <<mounted, nEvents>>
    /\ Set(Commit(Cur, FALSE), Event("render"))

\* a click: the handler's setState and the commit it causes, in one step
Click(s, type) ==
    /\ mounted /\ ~dirty
    /\ nEvents < MaxEvents
    /\ Cardinality(requests) <= MaxPending
    /\ StateOf(s) # StateOf(Cur)
    /\ nEvents' = nEvents + 1
    /\ UNCHANGED mounted
    /\ Set(Commit(s, FALSE), Event(type))

\* CapsuleSwitch onChange
SelectSource ==
    \E v \in Sources :
        /\ \/ v = "openlist" /\ runtimeConfig.OPENLIST_ENABLED
           \/ v = "emby" /\ runtimeConfig.EMBY_ENABLED
           \/ v = "xiaoya" /\ runtimeConfig.XIAOYA_ENABLED
        /\ Click([Cur EXCEPT !.sourceType = v], "source")

\* the Emby instance buttons
SelectEmbyKey ==
    \E i \in 1..Len(embySourceOptions) :
        /\ sourceType = "emby" /\ Len(embySourceOptions) > 1
        /\ Click([Cur EXCEPT !.embyKey = embySourceOptions[i]], "embyKey")

\* the Emby library buttons
SelectView ==
    \E v \in Views :
        /\ sourceType = "emby"
        /\ Click([Cur EXCEPT !.selectedView = v], "view")

handleSortOptionSelect ==
    \E value \in SortFields :
        /\ sourceType = "emby"
        /\ Click([Cur EXCEPT !.sortBy = value], "sort")

toggleSortOrder ==
    /\ sourceType = "emby"
    /\ Click([Cur EXCEPT !.sortOrder =
                IF sortOrder = "Ascending" THEN "Descending" ELSE "Ascending"], "sort")

\* a folder or breadcrumb button of the xiaoya browser
SelectPath ==
    \E path \in Paths :
        /\ sourceType = "xiaoya" /\ ~loading
        /\ Click([Cur EXCEPT !.xiaoyaPath = path], "path")

\* the IntersectionObserver callback with entry.isIntersecting
ObserverCallback ==
    /\ mounted /\ observer.on
    /\ nEvents < MaxEvents
    /\ Cardinality(requests) <= MaxPending
    /\ observer.hasMore /\ ~observer.loadingMore /\ ~observer.loading /\ ~isFetchingRef
    /\ page < MaxPage
    /\ nEvents' = nEvents + 1
    /\ UNCHANGED mounted
    /\ Set([Cur EXCEPT !.page = @ + 1, !.dirty = TRUE], Event("trigger"))

\* the fetch of a list request settles
Deliver ==
    \E r \in requests : \E out \in FetchOutcomes(r) :
        /\ UNCHANGED <<mounted, nEvents>>
        /\ LET s == Settle(r, Cur, out)
           IN Set([s EXCEPT !.dirty = @ \/ StateOf(s) # StateOf(Cur)],
                  [type |-> "deliver", r |-> r, out |-> out, fresh |-> TRUE])

\* the navigation of router.replace completes: useSearchParams gives the new URL
Navigate ==
    /\ mounted /\ ~dirty /\ pendingNav # NoNav
    /\ UNCHANGED <<mounted, nEvents>>
    /\ Set([Cur EXCEPT !.searchParams = pendingNav, !.pendingNav = NoNav,
                       !.dirty = pendingNav # searchParams], Event("navigate"))

\* /api/emby/sources answers (ok) or fails
EmbySourcesResponse ==
    \E noKey \in sourcesFetches : \E ok \in BOOLEAN :
        /\ UNCHANGED <<mounted, nEvents>>
        /\ LET s0 == [Cur EXCEPT !.sourcesFetches = @ \ {noKey}]
               s == IF ok
                    THEN [s0 EXCEPT !.embySourceOptions = EmbySources,
                                    !.embyKey = IF noKey /\ Len(EmbySources) > 0
                                                THEN EmbySources[1] ELSE @]
                    ELSE s0
           IN Set([s EXCEPT !.dirty = @ \/ StateOf(s) # StateOf(Cur)], Event("sources"))

Next ==
    \/ Mount
    \/ Render
    \/ SelectSource
    \/ SelectEmbyKey
    \/ SelectView
    \/ handleSortOptionSelect
    \/ toggleSortOrder
    \/ SelectPath
    \/ ObserverCallback
    \/ Deliver
    \/ Navigate
    \/ EmbySourcesResponse

Spec == Init /\ [][Next]_vars

(* ------------------------ GET /api/emby/list -------------------------- *)
\* requests the endpoint receives in one behaviour
MaxGets == 2
\* parameters one request carries
MaxParams == 1
\* the clock is not advanced beyond this value
MaxClock == 2
\* lifetime of a cache entry, in clock ticks
CACHE_TTL == 2

\* query parameters as they arrive: None when the parameter is absent, numbers
\* as digit strings
PageParams == {None, <<1>>, <<2>>}
PageSizeParams == {None, <<2>>}
ParentIds == {None, "v1"}
EmbyKeys == {None, "e1"}
SortByParams == {None, "SortName", "DateCreated"}
SortOrderParams == {None, "Ascending", "Descending"}
AllRequests ==
    [page : PageParams, pageSize : PageSizeParams, parentId : ParentIds,
     embyKey : EmbyKeys, sortBy : SortByParams, sortOrder : SortOrderParams]
\* the request that spells out every default
ExplicitDefaults ==
    [page |-> <<1>>, pageSize |-> <<2, 0>>, parentId |-> None, embyKey |-> None,
     sortBy |-> "SortName", sortOrder |-> "Ascending"]
\* the requests the endpoint receives: those that carry at most MaxParams
\* parameters, and ExplicitDefaults
GetRequests ==
    {req \in AllRequests :
        Cardinality({f \in DOMAIN req : req[f] # None}) <= MaxParams}
        \cup {ExplicitDefaults}

\* sizes the upstream library takes
LibrarySizes == {0, 3}
\* the instance embyManager resolves an absent key to
DefaultInstance == "e1"
Instances == {"e1"}

\* parseInt of a digit string
RECURSIVE parseInt(_)
parseInt(ds) ==
    IF ds = <<>> THEN 0
    ELSE 10 * parseInt(SubSeq(ds, 1, Len(ds) - 1)) + ds[Len(ds)]

\* searchParams.get(name) || dflt
OrDefault(v, dflt) == IF v = None THEN dflt ELSE v

\* mutant: a missing pageSize is read as 10
ParsedPageSizeTen(req) ==
    [page |-> parseInt(OrDefault(req.page, <<1>>)),
     pageSize |-> parseInt(OrDefault(req.pageSize, <<1, 0>>)),
     parentId |-> OrDefault(req.parentId, None),
     embyKey |-> OrDefault(req.embyKey, None),
     sortBy |-> OrDefault(req.sortBy, "SortName"),
     sortOrder |-> OrDefault(req.sortOrder, "Ascending")]

\* the handler's constants page, pageSize, parentId, embyKey, sortBy, sortOrder
Parsed(req) ==
    [page |-> parseInt(OrDefault(req.page, <<1>>)),
     pageSize |-> parseInt(OrDefault(req.pageSize, <<2, 0>>)),
     parentId |-> OrDefault(req.parentId, None),
     embyKey |-> OrDefault(req.embyKey, None),
     sortBy |-> OrDefault(req.sortBy, "SortName"),
     sortOrder |-> OrDefault(req.sortOrder, "Ascending")]

\* mutant: no request is treated as default-sorted
NeverDefaultSort(a) == FALSE

\* mutant: every request is treated as default-sorted
AlwaysDefaultSort(a) == TRUE

isDefaultSort(a) == a.sortBy = "SortName" /\ a.sortOrder = "Ascending"

\* what a lookup that finds nothing returns
Null == [null |-> TRUE]

\* the cache key of emby-cache
CacheKey(p, size, parentId, key) == <<p, size, parentId, key>>

\* mutant: an entry is returned whether or not it has expired
getCachedEmbyListNeverExpires(p, size, parentId, key) ==
    LET live == {e \in cache : e.key = CacheKey(p, size, parentId, key)}
    IN IF live = {} THEN Null ELSE (CHOOSE e \in live : TRUE).value

\* getCachedEmbyList: the value of the unexpired entry of the key, if any
getCachedEmbyList(p, size, parentId, key) ==
    LET live == {e \in cache : e.key = CacheKey(p, size, parentId, key)
                               /\ clock < e.expiresAt}
    IN IF live = {} THEN Null ELSE (CHOOSE e \in live : TRUE).value

\* setCachedEmbyList: the entry of the key is replaced
setCachedEmbyList(p, size, response, parentId, key) ==
    {e \in cache : e.key # CacheKey(p, size, parentId, key)}
        \cup {[key |-> CacheKey(p, size, parentId, key), value |-> response,
               expiresAt |-> clock + CACHE_TTL]}

\* embyManager.getClient(embyKey): the instance, or None when it throws
getClient(key) ==
    LET inst == IF key = None THEN DefaultInstance ELSE key
    IN IF inst \in available THEN inst ELSE None

\* the upstream query of a handler whose client is inst
UpstreamQuery(inst, a) ==
    <<"emby", inst, IF a.parentId = None THEN "all" ELSE a.parentId,
      a.sortBy, a.sortOrder>>

\* the record of a completed handler
Completed(h, response, nClient, nItems, wrote) ==
    [id |-> h.id, req |-> h.req, arrived |-> h.arrived,
     startedAfter |-> h.startedAfter, done |-> clock, resp |-> response,
     clientCalls |-> nClient, itemsCalls |-> nItems, stored |-> wrote]

\* GET, up to the first await: parameters, cache check
GetStart(req) ==
    /\ Len(history) + Cardinality(handlers) < MaxGets
    /\ LET a == Parsed(req)
           h == [id |-> Len(history) + Cardinality(handlers) + 1, req |-> req,
                 arrived |-> clock, startedAfter |-> Len(history)]
           cached == IF isDefaultSort(a)
                     THEN getCachedEmbyList(a.page, a.pageSize, a.parentId, a.embyKey)
                     ELSE Null
       IN IF cached # Null
          THEN /\ history' = Append(history, Completed(h, cached, 0, 0, FALSE))
               /\ UNCHANGED handlers
          ELSE /\ handlers' = handlers \cup {h}
               /\ UNCHANGED history
    /\ UNCHANGED <<cache, clock, library, available>>
    /\ UNCHANGED sessionVars
    /\ UNCHANGED listingVars

\* mutant: the response is stored whether or not the fetch succeeded
GetFinishStoresFailure(h, itemsOk) ==
    /\ h \in handlers
    /\ handlers' = handlers \ {h}
    /\ LET a == Parsed(h.req)
           client == getClient(a.embyKey)
           response == IF client = None \/ ~itemsOk THEN ListFailure(a.page)
                       ELSE ListSuccess(UpstreamQuery(client, a), a.page,
                                        a.pageSize, library)
       IN /\ cache' = IF isDefaultSort(a)
                      THEN setCachedEmbyList(a.page, a.pageSize, response,
                                             a.parentId, a.embyKey)
                      ELSE cache
          /\ history' = Append(history,
                               Completed(h, response, 1,
                                         IF client = None THEN 0 ELSE 1,
                                         isDefaultSort(a)))
    /\ UNCHANGED <<clock, library, available>>
    /\ UNCHANGED sessionVars
    /\ UNCHANGED listingVars

\* GET, from getClient to the response; itemsOk: client.getItems does not throw
GetFinish(h, itemsOk) ==
    /\ h \in handlers
    /\ handlers' = handlers \ {h}
    /\ LET a == Parsed(h.req)
           client == getClient(a.embyKey)
       IN IF client = None
          THEN /\ history' = Append(history,
                                    Completed(h, ListFailure(a.page), 1, 0, FALSE))
               /\ UNCHANGED cache
          ELSE IF ~itemsOk
          THEN /\ history' = Append(history,
                                    Completed(h, ListFailure(a.page), 1, 1, FALSE))
               /\ UNCHANGED cache
          ELSE LET response == ListSuccess(UpstreamQuery(client, a), a.page,
                                           a.pageSize, library)
               IN /\ cache' = IF isDefaultSort(a)
                              THEN setCachedEmbyList(a.page, a.pageSize, response,
                                                     a.parentId, a.embyKey)
                              ELSE cache
                  /\ history' = Append(history,
                                       Completed(h, response, 1, 1, isDefaultSort(a)))
    /\ UNCHANGED <<clock, library, available>>
    /\ UNCHANGED sessionVars
    /\ UNCHANGED listingVars

\* time passes
Tick ==
    /\ clock < MaxClock
    /\ clock' = clock + 1
    /\ UNCHANGED <<cache, library, available, handlers, history>>
    /\ UNCHANGED sessionVars
    /\ UNCHANGED listingVars

\* media is added to or removed from the upstream library
UpstreamChange ==
    /\ library' \in LibrarySizes \ {library}
    /\ UNCHANGED <<cache, clock, available, handlers, history>>
    /\ UNCHANGED sessionVars
    /\ UNCHANGED listingVars

\* an instance is configured, enabled, disabled or removed
ConfigChange ==
    /\ available' \in (SUBSET Instances) \ {available}
    /\ UNCHANGED <<cache, clock, library, handlers, history>>
    /\ UNCHANGED sessionVars
    /\ UNCHANGED listingVars

RouteInit ==
    /\ SessionInit({<<>>}, {[OPENLIST_ENABLED |-> FALSE, EMBY_ENABLED |-> FALSE,
                             XIAOYA_ENABLED |-> FALSE]})
    /\ cache = {}
    /\ clock = 0
    /\ library = 3
    /\ available = Instances
    /\ handlers = {}
    /\ history = <<>>
    /\ ListingIdle

RouteNext ==
    \/ \E req \in GetRequests : GetStart(req)
    \/ \E h \in handlers, itemsOk \in BOOLEAN : GetFinish(h, itemsOk)
    \/ Tick
    \/ UpstreamChange
    \/ ConfigChange

RouteSpec == RouteInit /\ [][RouteNext]_vars

(* ------------------- one listing, page after page --------------------- *)
\* the sequences over S of length at most n
RECURSIVE SeqsUpTo(_, _)
SeqsUpTo(n, S) ==
    IF n = 0 THEN {<<>>}
    ELSE LET shorter == SeqsUpTo(n - 1, S)
         IN shorter \cup {Append(s, x) : s \in {u \in shorter : Len(u) = n - 1}, x \in S}

\* the listing that is fetched: default sort, all containers, instance e1
ListingQuery == <<"emby", "e1", "all", "SortName", "Ascending">>

\* any upstream library of at most MaxItems items and any pageSize up to MaxLimit
ListingInit ==
    /\ SessionInit({<<>>}, {[OPENLIST_ENABLED |-> FALSE, EMBY_ENABLED |-> FALSE,
                             XIAOYA_ENABLED |-> FALSE]})
    /\ RouteIdle
    /\ catalog \in {[k \in 1..Len(kinds) |-> UpstreamItem(ListingQuery, k - 1, kinds[k])] :
                       kinds \in SeqsUpTo(MaxItems, ItemKinds)}
    /\ limit \in 1..MaxLimit
    /\ answers = <<>>

\* the fetch path of GET for the next page of the listing
FetchPage ==
    /\ Len(answers) < MaxFetch
    /\ LET p == Len(answers) + 1
           result == GetItemsFrom(catalog, StartIndexOf(p, limit), limit)
       IN answers' = Append(answers, [StartIndex |-> StartIndexOf(p, limit),
                                      Limit |-> limit,
                                      result |-> result,
                                      resp |-> ListResponse(result, p, limit)])
    /\ UNCHANGED <<catalog, limit>>
    /\ UNCHANGED sessionVars
    /\ UNCHANGED routeVars

ListingNext == FetchPage

ListingSpec == ListingInit /\ [][ListingNext]_vars

(* ============================== claims ================================ *)
\* the step delivers the response (or the error) of request r
Delivered(r) == r \in requests /\ r \notin requests'

\* C1: the arrival of the response or error of a superseded (aborted) request
\* changes none of videos, hasMore, error, xiaoyaFolders, xiaoyaFiles
C1_StaleArrivalChangesNothing ==
    [][\A r \in requests :
          (r.aborted /\ Delivered(r)) =>
              UNCHANGED <<videos, hasMore, error, xiaoyaFolders, xiaoyaFiles>>]_vars

\* a superseded request's response arrives after the list of the newer one was built
C1_Witness ==
    /\ ev.type = "deliver" /\ ev.fresh /\ ev.r.aborted
    /\ videos # <<>>
    /\ \A k \in 1..Len(videos) : videos[k].id[1] # QueryOf(ev.r)

\* the render of the current sourceType and embyKey has been committed
SourceCommitted ==
    mounted /\ rendered.sourceType = sourceType /\ rendered.embyKey = embyKey

\* C2: once a change of sourceType or embyKey is committed, the requests of the
\* old source are aborted and videos holds only items answered to requests
\* issued for the new source, whenever the old responses arrive
C2_OnlyNewSourceItems ==
    SourceCommitted =>
        /\ \A r \in requests :
              (r.sourceType # sourceType \/ r.embyKey # embyKey) => r.aborted
        /\ \A k \in 1..Len(videos) :
              /\ videos[k].id[1][1] = sourceType
              /\ videos[k].id[1][2] = embyKey

\* the response of a request of the old source arrives after the list of the
\* new source was built
C2_Witness ==
    /\ SourceCommitted
    /\ ev.type = "deliver" /\ ev.fresh /\ ev.r.aborted
    /\ (ev.r.sourceType # sourceType \/ ev.r.embyKey # embyKey)
    /\ videos # <<>>

\* C3: at most one list request whose controller is not aborted is in flight,
\* and it is the one abortControllerRef holds
C3_OneLiveRequest ==
    /\ Cardinality({r \in requests : ~r.aborted}) <= 1
    /\ \A r \in requests : ~r.aborted => r.id = abortControllerRef

\* a superseded request and its successor are in flight together
C3_Witness ==
    \E r1, r2 \in requests : r1.aborted /\ ~r2.aborted

\* the last thing that happened is an axis change by the user, and every render
\* it caused is committed
AxisChangeProcessed ==
    ev.type \in {"source", "embyKey", "view", "sort"} /\ ~dirty

\* a page-1 request of the current query is in flight and not superseded
LivePageOneRequest ==
    \E r \in requests :
        /\ ~r.aborted /\ r.page = 1
        /\ r.sourceType = sourceType /\ r.embyKey = embyKey
        /\ r.selectedView = selectedView /\ r.sortBy = sortBy /\ r.sortOrder = sortOrder

\* C6: an axis change is a full reset: once processed, and before any response
\* arrives, videos is empty, page is 1, hasMore is true, error is empty,
\* loadingMore is false and loading is true only for the new page-1 request
C6_AxisChangeIsFullReset ==
    AxisChangeProcessed =>
        /\ videos = <<>> /\ page = 1 /\ hasMore /\ error = ""
        /\ ~loadingMore
        /\ loading => LivePageOneRequest

\* what does hold after an axis change: everything but the loadingMore flag
C6_ResetButLoadingMore ==
    AxisChangeProcessed =>
        /\ videos = <<>> /\ page = 1 /\ hasMore /\ error = ""
        /\ loading => LivePageOneRequest
        /\ loadingMore => rendered.page = 1

\* a request that was not superseded has just completed and no other is live
LiveRequestCompleted ==
    /\ ev.type = "deliver" /\ ev.fresh /\ ~ev.r.aborted
    /\ \A r \in requests : r.aborted

\* C7: the superseding request's own completion clears the loading flags: once
\* it completes, loading, loadingMore and isFetchingRef are all false
C7_CompletionClearsFlags ==
    LiveRequestCompleted => ~loading /\ ~loadingMore /\ ~isFetchingRef

\* what the completion does clear: the flag of its own page kind, and the ref
C7_OwnFlagCleared ==
    LiveRequestCompleted =>
        /\ ~isFetchingRef
        /\ IF ev.r.page = 1 THEN ~loading ELSE ~loadingMore

\* the response of a request for a paginated source has just been applied
PaginatedApplied ==
    /\ ev.type = "deliver" /\ ev.fresh /\ ev.out = "ok"
    /\ ev.r.sourceType # "xiaoya"

\* C8 (as claimed): after every successfully applied response of a paginated
\* source, hasMore = (currentPage < totalPages), and hasMore is false exactly
\* when the loaded page equals totalPages
C8_HasMoreFalseExactlyAtLastPage ==
    PaginatedApplied =>
        /\ hasMore = (DataOf(ev.r).currentPage < DataOf(ev.r).totalPages)
        /\ ~hasMore <=> (ev.r.page = DataOf(ev.r).totalPages)

\* C8 (amended): after every successfully applied response of a paginated
\* source, hasMore = (currentPage < totalPages): it is false exactly when the
\* loaded page is the last page or beyond it (totalPages is 0 for an empty library)
C8_HasMoreIffPageBelowTotal ==
    PaginatedApplied =>
        /\ DataOf(ev.r).currentPage = ev.r.page
        /\ hasMore = (DataOf(ev.r).currentPage < DataOf(ev.r).totalPages)
        /\ ~hasMore <=> (ev.r.page >= DataOf(ev.r).totalPages)

\* the last page of a library of three pages has been applied
C8_Witness ==
    /\ PaginatedApplied /\ ~hasMore
    /\ ev.r.page = 3 /\ DataOf(ev.r).totalPages = 3

\* C9: every successfully applied xiaoya browse response sets hasMore to false,
\* leaves videos empty and replaces xiaoyaFolders and xiaoyaFiles; the trigger
\* advances no page while the source is xiaoya
C9_XiaoyaSingleFetch ==
    /\ (ev.type = "deliver" /\ ev.fresh /\ ev.out = "ok" /\ ev.r.sourceType = "xiaoya") =>
          /\ ~hasMore
          /\ videos = <<>>
          /\ xiaoyaFolders = XiaoyaBrowse(ev.r.xiaoyaPath).folders
          /\ xiaoyaFiles = XiaoyaBrowse(ev.r.xiaoyaPath).files
    /\ (ev.type = "trigger" /\ ev.fresh) => sourceType # "xiaoya"

\* a browse response of a folder other than the root has been applied
C9_Witness ==
    /\ ev.type = "deliver" /\ ev.fresh /\ ev.out = "ok"
    /\ ev.r.sourceType = "xiaoya" /\ ev.r.xiaoyaPath = "/a"
    /\ sourceType = "xiaoya" /\ xiaoyaFiles # <<>>

\* items first..last (0-based positions) of the library of query q
LibraryItems(q, first, last) ==
    [k \in 1..(last - first + 1) |-> <<q, first + k - 1>>]

\* the ids of the items of a list, in order
IdsOf(list) == [k \in 1..Len(list) |-> list[k].id]

\* C10: pageSize 20 and TotalRecordCount 45 give totalPages 3; the responses of
\* pages 1, 2, 3 leave hasMore true, true, false, and applied in sequence they
\* leave videos as the page-1 list, then the page-2 list, then the page-3 list:
\* the 45 items of the library, each once
C10_ThreePagesOfFortyFive ==
    [][\A r \in requests :
          (/\ Delivered(r) /\ ev'.type = "deliver" /\ ev'.out = "ok"
           /\ r.sourceType # "xiaoya"
           /\ pageSize = 20 /\ TotalRecordCount(QueryOf(r)) = 45)
          => /\ DataOf(r).totalPages = 3
             /\ r.page \in {1, 2} => hasMore'
             /\ r.page = 3 => ~hasMore'
             /\ r.page = 1 => IdsOf(videos') = LibraryItems(QueryOf(r), 0, 19)
             /\ (r.page = 2 /\ IdsOf(videos) = LibraryItems(QueryOf(r), 0, 19))
                   => IdsOf(videos') = LibraryItems(QueryOf(r), 0, 39)
             /\ (r.page = 3 /\ IdsOf(videos) = LibraryItems(QueryOf(r), 0, 39))
                   => (IdsOf(videos') = LibraryItems(QueryOf(r), 0, 44) /\ Len(videos') <= 45)]_vars

\* the third page has been applied after the first two
C10_Witness ==
    /\ PaginatedApplied /\ ev.r.page = 3
    /\ IdsOf(videos) = LibraryItems(QueryOf(ev.r), 0, 44)
    /\ ~hasMore
\* the request asks for the default order, explicitly or by omission
DefaultSortRequested(req) ==
    /\ req.sortBy \in {None, "SortName"}
    /\ req.sortOrder \in {None, "Ascending"}

\* the (page, pageSize, parentId, embyKey) of a request
KeyOf(req) ==
    <<Parsed(req).page, Parsed(req).pageSize, Parsed(req).parentId,
      Parsed(req).embyKey>>

\* history[i] fetched its response upstream with success and history[j], a
\* request of the same key, arrived after it completed and within the TTL,
\* no other response having been stored for the key in between
FirstThenSecond(i, j) ==
    /\ i < j
    /\ history[j].startedAfter >= i
    /\ DefaultSortRequested(history[i].req)
    /\ DefaultSortRequested(history[j].req)
    /\ KeyOf(history[i].req) = KeyOf(history[j].req)
    /\ history[i].resp.success
    /\ history[i].itemsCalls = 1
    /\ history[j].arrived < history[i].done + CACHE_TTL
    /\ \A k \in (i + 1)..(j - 1) :
          ~(history[k].stored /\ KeyOf(history[k].req) = KeyOf(history[i].req))

\* C4: of two default-sort requests with identical (page, pageSize, parentId,
\* embyKey), the first successful and the second arriving within the TTL, the
\* second returns the response of the first and calls neither getClient nor
\* getItems
C4_SecondServedFromCache ==
    \A i, j \in DOMAIN history :
        FirstThenSecond(i, j) =>
            /\ history[j].resp = history[i].resp
            /\ history[j].clientCalls = 0
            /\ history[j].itemsCalls = 0

\* the second request was answered from the cache although the upstream
\* library had changed and the instance had been removed in the meantime
C4_Witness ==
    \E i, j \in DOMAIN history :
        /\ FirstThenSecond(i, j)
        /\ history[j].resp = history[i].resp
        /\ history[j].clientCalls = 0
        /\ library # history[i].resp.total
        /\ available = {}

\* the order every item of a success response was fetched in is the order
\* the request asked for
OrderedAsRequested(rec) ==
    rec.resp.success =>
        \A k \in 1..Len(rec.resp.list) :
            /\ rec.resp.list[k].id[1][4] = OrDefault(rec.req.sortBy, "SortName")
            /\ rec.resp.list[k].id[1][5] = OrDefault(rec.req.sortOrder, "Ascending")

\* C5: a request with a non-default sortBy or sortOrder is never answered at
\* arrival, calls upstream and leaves the cache unchanged, whatever the cache
\* holds; every response, cached or not, is in the order its request asked for
C5_NonDefaultSortBypassesCache ==
    [][/\ \A h \in handlers' \ handlers :
              ~DefaultSortRequested(h.req) => cache' = cache
       /\ Len(history') > Len(history) =>
              LET rec == history'[Len(history')]
              IN /\ OrderedAsRequested(rec)
                 /\ ~DefaultSortRequested(rec.req) =>
                        /\ cache' = cache
                        /\ rec.clientCalls = 1
                        /\ rec.id \in {h.id : h \in handlers}]_vars

\* a non-default-sort request was answered from upstream while the cache held
\* an unexpired entry for its (page, pageSize, parentId, embyKey)
C5_Witness ==
    \E i, j \in DOMAIN history :
        /\ i < j
        /\ history[j].startedAfter >= i
        /\ history[i].stored
        /\ ~DefaultSortRequested(history[j].req)
        /\ KeyOf(history[i].req) = KeyOf(history[j].req)
        /\ history[j].arrived < history[i].done + CACHE_TTL
        /\ history[j].resp.success
        /\ history[j].resp.list # <<>>
        /\ history[j].itemsCalls = 1
        /\ \E e \in cache : e.key = KeyOf(history[j].req)
                            /\ e.value = history[i].resp

\* the runtime flag of a source
FlagOf(src) ==
    CASE src = "openlist" -> runtimeConfig.OPENLIST_ENABLED
      [] src = "emby" -> runtimeConfig.EMBY_ENABLED
      [] src = "xiaoya" -> runtimeConfig.XIAOYA_ENABLED
      [] OTHER -> FALSE

\* C11: no listing request is ever issued for a source whose runtime flag is
\* false, nor for emby without an embyKey; a commit whose render has such a
\* source issues no request at all
C11_NoRequestWhileDisabled ==
    [][/\ \A r \in requests' \ requests :
              FlagOf(r.sourceType) /\ (r.sourceType = "emby" => r.embyKey # None)
       /\ (mounted' /\ (~FlagOf(sourceType')
                        \/ (sourceType' = "emby" /\ embyKey' = None))
                    /\ ~dirty')
              => {r \in requests' : ~r.aborted} = {}]_vars

\* the user changed the sort or the view of a source that is disabled or has no
\* embyKey, the fetchVideos effect ran for it, and no request is in flight
C11_Witness ==
    /\ ev.type \in {"sort", "view"} /\ ev.fresh
    /\ sourceType = "emby"
    /\ ~runtimeConfig.EMBY_ENABLED \/ embyKey = None
    /\ requests = {}

\* the render of a session whose selected source is disabled is committed
DisabledCommitted == mounted /\ ~dirty /\ ~FlagOf(sourceType)

FailsNow(r) ==
    /\ Delivered(r) /\ ~r.aborted
    /\ ev'.type = "deliver" /\ ev'.r = r /\ ev'.out \in {"http", "error"}

C14_LaterPageFailureKeepsList ==
    [][\A r \in requests :
          (FailsNow(r) /\ r.page >= 2) =>
              /\ UNCHANGED <<videos, hasMore, xiaoyaFolders, xiaoyaFiles, page, loading>>
              /\ error' # ""
              /\ ~loadingMore']_vars

\* the request for page 2 has failed with an HTTP failure or a thrown error
\* and the items of page 1 are still listed
C14_Witness ==
    /\ ev.type = "deliver" /\ ev.fresh /\ ~ev.r.aborted
    /\ ev.r.page = 2 /\ ev.out = "http"
    /\ Len(videos) = pageSize /\ error # "" /\ ~loadingMore /\ hasMore

\* the incremental-load trigger advances the page in this step
TriggerAdvances == ev'.type = "trigger" /\ ev'.fresh /\ page' = page + 1

\* a request that was not superseded is in flight
LoadInFlight == \E r \in requests : ~r.aborted

\* C15: the trigger advances the page only if, on the session's current state,
\* hasMore is true and loading and loadingMore are false; it never advances
\* while a load is in flight or after hasMore became false
C15_TriggerGuardOnCurrentState ==
    [][TriggerAdvances =>
          /\ hasMore /\ ~loading /\ ~loadingMore
          /\ ~LoadInFlight]_vars

\* what the callback does test: the flags of the render that created the
\* observer, and the ref
C15_TriggerGuardOnClosure ==
    [][TriggerAdvances =>
          /\ observer.on /\ observer.hasMore
          /\ ~observer.loading /\ ~observer.loadingMore
          /\ ~isFetchingRef]_vars

\* C16: repeated firing advances the page once: the trigger advances the page
\* only when its previous advance has been rendered (so that its load was
\* started) and a load completed or the user acted since, hence the page of a
\* request is never two or more beyond the last page rendered
C16_RepeatedFiringAdvancesOnce ==
    [][TriggerAdvances => (page = rendered.page /\ ev.type # "trigger")]_vars

\* the failure shape for the requested page p
FailureShape(resp, p) ==
    /\ ~resp.success /\ resp.error # ""
    /\ resp.list = <<>> /\ resp.totalPages = 0 /\ resp.total = 0
    /\ resp.currentPage = p

\* the success shape for the requested page p
SuccessShape(resp, p) ==
    /\ resp.success /\ resp.error = ""
    /\ resp.currentPage = p
    /\ resp.totalPages >= 0 /\ resp.total >= 0
    /\ Len(resp.list) <= resp.total

\* C17: the handler answers every request, with the failure shape when
\* resolving the client or querying the items failed and with the success
\* shape otherwise, currentPage being the requested page
C17_EveryRequestAnswered ==
    [][/\ \A h \in handlers \ handlers' :
              /\ Len(history') = Len(history) + 1
              /\ history'[Len(history')].id = h.id
              /\ getClient(Parsed(h.req).embyKey) = None
                    => FailureShape(history'[Len(history')].resp, Parsed(h.req).page)
       /\ Len(history') > Len(history) =>
              LET rec == history'[Len(history')]
              IN \/ FailureShape(rec.resp, Parsed(rec.req).page)
                 \/ SuccessShape(rec.resp, Parsed(rec.req).page)]_vars

\* a request for page 2 was answered with the failure shape after getItems
\* threw, and another request was answered with a success
C17_Witness ==
    \E i, j \in DOMAIN history :
        /\ history[i].itemsCalls = 1
        /\ FailureShape(history[i].resp, 2)
        /\ SuccessShape(history[j].resp, Parsed(history[j].req).page)
        /\ history[j].resp.list # <<>>

\* history[i], a default-sort request, failed and history[j], an identical
\* request, arrived after it completed, no other request having stored a
\* response for the key
FailureThenSame(i, j) ==
    /\ i < j
    /\ history[j].startedAfter >= i
    /\ ~history[i].resp.success
    /\ DefaultSortRequested(history[i].req)
    /\ DefaultSortRequested(history[j].req)
    /\ KeyOf(history[i].req) = KeyOf(history[j].req)
    /\ \A k \in DOMAIN history \ {i, j} :
          ~(history[k].stored /\ KeyOf(history[k].req) = KeyOf(history[i].req))

\* C18: the cache changes only when a default-sort request that missed the
\* cache completes with a successful upstream fetch, and then by the entry of
\* that response; a failed request writes nothing, the next identical request
\* calls upstream again, and no failure response is served from the cache
C18_OnlySuccessfulMissWrites ==
    [][/\ cache' # cache =>
              /\ Len(history') = Len(history) + 1
              /\ LET rec == history'[Len(history')]
                 IN /\ rec.id \in {h.id : h \in handlers}
                    /\ DefaultSortRequested(rec.req)
                    /\ rec.resp.success /\ rec.itemsCalls = 1
                    /\ cache' \ cache =
                           {[key |-> KeyOf(rec.req), value |-> rec.resp,
                             expiresAt |-> clock + CACHE_TTL]}
       /\ \A e \in cache' : e.value.success
       /\ \A i \in DOMAIN history' :
              history'[i].clientCalls = 0 => history'[i].resp.success
       /\ \A i, j \in DOMAIN history' :
              FailureThenSame(i, j)' => history'[j].clientCalls = 1]_vars

\* a default-sort request failed and the identical request that followed
\* called upstream again and succeeded
C18_Witness ==
    \E i, j \in DOMAIN history :
        /\ FailureThenSame(i, j)
        /\ history[i].itemsCalls = 1
        /\ history[j].clientCalls = 1 /\ history[j].resp.success
        /\ \E e \in cache : e.key = KeyOf(history[j].req) /\ e.value = history[j].resp

\* the success responses given so far, each with its parsed parameters
SuccessResponses ==
    {[a |-> Parsed(history[i].req), resp |-> history[i].resp] :
        i \in {k \in DOMAIN history : history[k].resp.success}}

\* C19 (as stated): every success response for a page >= 1 and a pageSize > 0
\* has currentPage <= totalPages when total > 0, and at most pageSize items
C19_CurrentPageWithinTotal ==
    \A s \in SuccessResponses :
        (s.a.page >= 1 /\ s.a.pageSize > 0) =>
            /\ s.resp.total > 0 => s.resp.currentPage <= s.resp.totalPages
            /\ Len(s.resp.list) <= s.a.pageSize

\* C19 (amended): every success response for a page >= 1 and a pageSize > 0
\* echoes the requested page as currentPage and has at most pageSize items;
\* when total > 0, currentPage <= totalPages exactly when the list is not empty
C19_CurrentPageIsRequestedPage ==
    \A s \in SuccessResponses :
        (s.a.page >= 1 /\ s.a.pageSize > 0) =>
            /\ s.resp.currentPage = s.a.page
            /\ Len(s.resp.list) <= s.a.pageSize
            /\ s.resp.totalPages = Ceil(s.resp.total, s.a.pageSize)
            /\ s.resp.total > 0 =>
                   (s.resp.currentPage <= s.resp.totalPages <=> Len(s.resp.list) > 0)

\* a full page of a library that has more than one page, and a page past the
\* last one, have both been answered
C19_Witness ==
    /\ \E s \in SuccessResponses :
          /\ s.resp.totalPages > 1
          /\ Len(s.resp.list) = s.a.pageSize
    /\ \E s \in SuccessResponses :
          /\ s.resp.total > 0
          /\ s.resp.currentPage > s.resp.totalPages
          /\ Len(s.resp.list) = 0

C21_ItemsNormalized ==
    \A i \in DOMAIN answers :
        LET Items == answers[i].result.Items
            list == answers[i].resp.list
        IN /\ answers[i].resp.success
           /\ Len(list) = Len(Items)
           /\ \A k \in DOMAIN Items :
                 /\ DOMAIN list[k] = {"id", "title", "poster", "year", "rating", "mediaType"}
                 /\ list[k].id = Items[k].Id
                 /\ list[k].title = Items[k].Name
                 /\ Items[k].CommunityRating = Missing => list[k].rating = 0
                 /\ Items[k].CommunityRating = <<7>> => list[k].rating = 7
                 /\ Items[k].ProductionYear = Missing => list[k].year = <<>>
                 /\ Items[k].ProductionYear = <<1999>> => list[k].year = <<1, 9, 9, 9>>
                 /\ Items[k].Type = "Movie" => list[k].mediaType = "movie"
                 /\ Items[k].Type # "Movie" => list[k].mediaType = "tv"

\* a response of two items: a movie without rating and year, then an item
\* that is neither a movie nor a series
C21_Witness ==
    \E i \in DOMAIN answers :
        LET Items == answers[i].result.Items
        IN /\ Len(Items) = 2 /\ Len(answers[i].resp.list) = 2
           /\ Items[1].Type = "Movie"
           /\ Items[1].CommunityRating = Missing /\ Items[1].ProductionYear = Missing
           /\ Items[2].Type = "BoxSet" /\ Items[2].ProductionYear = <<1999>>

\* C22: a successful paginated response for page 1 replaces videos by its
\* list; one for a page > 1 leaves the existing videos in place and puts its
\* list after them, in response order
C22_ReplaceOrAppend ==
    [][\A r \in requests :
          (/\ Delivered(r) /\ ev'.type = "deliver" /\ ev'.out = "ok"
           /\ r.sourceType # "xiaoya")
          => /\ r.page = 1 => videos' = DataOf(r).list
             /\ r.page > 1 =>
                   /\ Len(videos') = Len(videos) + Len(DataOf(r).list)
                   /\ SubSeq(videos', 1, Len(videos)) = videos
                   /\ SubSeq(videos', Len(videos) + 1, Len(videos')) = DataOf(r).list]_vars

\* the list of page 2 has been put after the 20 items of page 1
C22_Witness ==
    /\ PaginatedApplied /\ ev.r.page = 2
    /\ IdsOf(videos) = LibraryItems(QueryOf(ev.r), 0, 39)

\* a request for a later page of the current source, instance, container and
\* sort is outstanding and not superseded
LaterPageOutstanding ==
    \E r \in requests :
        /\ ~r.aborted
        /\ r.page > 1
        /\ QueryOf(r) = <<sourceType, embyKey, selectedView, sortBy, sortOrder>>

\* C23: loading and loadingMore are never both true, and loadingMore is true
\* only while a non-superseded request for a page > 1 of the current source,
\* container and sort is outstanding
C23_LoadingStateMachine ==
    /\ ~(loading /\ loadingMore)
    /\ loadingMore => LaterPageOutstanding

\* the entries of the cache stored under the key of req
EntriesOf(req) == {e \in cache : e.key = KeyOf(req)}

\* C24: a default-sort request is answered from the cache only by an entry of
\* its key that has not expired, so one that arrives after the TTL of the entry
\* has elapsed calls upstream as if the entry were absent; when its fetch
\* succeeds the entry of the key is replaced by the fresh response
C24_ExpiredEntryIsAbsent ==
    [][/\ Len(history') > Len(history) =>
              LET rec == history'[Len(history')]
              IN /\ rec.clientCalls = 0 =>
                        /\ rec.arrived = clock
                        /\ \E e \in EntriesOf(rec.req) :
                               clock < e.expiresAt /\ e.value = rec.resp
                 /\ (DefaultSortRequested(rec.req) /\ rec.clientCalls = 1
                     /\ rec.resp.success) =>
                        {e \in cache' : e.key = KeyOf(rec.req)} =
                            {[key |-> KeyOf(rec.req), value |-> rec.resp,
                              expiresAt |-> clock + CACHE_TTL]}
       /\ \A h \in handlers' \ handlers :
              DefaultSortRequested(h.req) =>
                  \A e \in EntriesOf(h.req) : clock >= e.expiresAt]_vars

\* a response was stored, the library changed, and the identical request that
\* arrived after the TTL called upstream and stored its own, different response
C24_Witness ==
    \E i, j \in DOMAIN history :
        /\ i < j
        /\ history[i].stored /\ history[j].stored
        /\ KeyOf(history[i].req) = KeyOf(history[j].req)
        /\ history[j].arrived >= history[i].done + CACHE_TTL
        /\ history[j].clientCalls = 1
        /\ history[j].resp # history[i].resp
        /\ EntriesOf(history[j].req) =
               {[key |-> KeyOf(history[j].req), value |-> history[j].resp,
                 expiresAt |-> history[j].done + CACHE_TTL]}

\* the request omits page, pageSize, sortBy and sortOrder
OmitsDefaults(req) ==
    /\ req.page = None /\ req.pageSize = None
    /\ req.sortBy = None /\ req.sortOrder = None

\* the request with page = 1, pageSize = 20, sortBy = SortName and
\* sortOrder = Ascending spelled out, and the container and instance of req
SpelledOut(req) ==
    [req EXCEPT !.page = <<1>>, !.pageSize = <<2, 0>>,
                !.sortBy = "SortName", !.sortOrder = "Ascending"]

\* req spells out the four defaults, for the container and instance of bare
IsSpelledOut(req, bare) ==
    /\ <<1>> = req.page /\ <<2, 0>> = req.pageSize
    /\ req.sortBy = "SortName" /\ req.sortOrder = "Ascending"
    /\ req.parentId = bare.parentId /\ req.embyKey = bare.embyKey

\* history[i] and history[j] are a request that omits the four parameters and
\* the request that spells them out, in either order
OmittedAndSpelledOut(i, j) ==
    \/ OmitsDefaults(history[i].req) /\ IsSpelledOut(history[j].req, history[i].req)
    \/ OmitsDefaults(history[j].req) /\ IsSpelledOut(history[i].req, history[j].req)

\* C25: a handled request that omits page, pageSize, sortBy and sortOrder gives the
\* handler the same page, pageSize, sort and cache key as the request that
\* spells out 1, 20, SortName, Ascending and is cache-eligible; whichever of
\* the two completes first with success, the other is answered within the TTL
\* from the entry the first one stored
C25_OmittedEqualsDefaults ==
    /\ \A i \in DOMAIN history :
          OmitsDefaults(history[i].req) =>
              LET req == history[i].req
              IN /\ Parsed(req) = Parsed(SpelledOut(req))
                 /\ Parsed(req).page = 1 /\ Parsed(req).pageSize = 20
                 /\ isDefaultSort(Parsed(req))
                 /\ KeyOf(req) = KeyOf(SpelledOut(req))
    /\ \A i, j \in DOMAIN history :
          (OmittedAndSpelledOut(i, j) /\ FirstThenSecond(i, j)) =>
              /\ history[i].stored
              /\ history[j].clientCalls = 0
              /\ history[j].resp = history[i].resp

\* the request that omits the parameters stored a response and the request
\* that spells them out was answered from that entry
C25_Witness ==
    \E i, j \in DOMAIN history :
        /\ FirstThenSecond(i, j)
        /\ OmitsDefaults(history[i].req)
        /\ IsSpelledOut(history[j].req, history[i].req)
        /\ history[i].stored
        /\ history[j].clientCalls = 0
        /\ history[j].resp = history[i].resp
        /\ \E e \in cache : e.key = <<1, 20, None, None>> /\ e.value = history[i].resp

\* the failure of a request for a later page is on display: the error is set
\* and the items loaded before it are kept
ErroredWithPartialData == error # "" /\ videos # <<>> /\ sourceType # "xiaoya"

\* C26: the load triggered after the request for a page k >= 2 failed requests
\* page k again: a request for a later page issued while the failure is on
\* display is for the page that follows the items that are loaded
C26_RetryRequestsFailedPage ==
    [][\A r \in requests' \ requests :
          (ErroredWithPartialData /\ r.sourceType # "xiaoya" /\ r.page > 1)
          => (r.page - 1) * pageSize = Len(videos)]_vars

\* the step is the user's change of the source, the instance, the container
\* or the sort, with the commit that follows it
AxisChange == ev'.type \in {"source", "embyKey", "view", "sort"} /\ ev'.fresh

\* C27: the request issued after an axis change is for page 1 (the xiaoya
\* endpoint takes no page), and an emby request issued after a change of
\* source or instance does not carry the container of the previous query
C27_RequestsArePostReset ==
    [][AxisChange =>
          \A r \in requests' \ requests :
              /\ r.sourceType # "xiaoya" => r.page = 1
              /\ (ev'.type \in {"source", "embyKey"} /\ r.sourceType = "emby")
                    => r.selectedView = "all"]_vars

\* the item positions of the library that the window asked for page p holds
PositionsOf(p) ==
    {n \in 0..(Len(catalog) - 1) :
        answers[p].StartIndex <= n /\ n < answers[p].StartIndex + answers[p].Limit}

\* the pages of the listing that exist and have been fetched
FetchedPages == {p \in DOMAIN answers : p <= Ceil(Len(catalog), limit)}

\* C28: the window asked for page p is StartIndex = (p - 1) * pageSize with
\* Limit = pageSize and the upstream answers with the items at these positions;
\* the windows of different pages are disjoint, each starts where the previous
\* one ends, and those of pages 1..totalPages cover positions 0..total-1
C28_WindowsPartitionTheLibrary ==
    /\ \A p \in DOMAIN answers :
          /\ answers[p].StartIndex = (p - 1) * limit
          /\ answers[p].Limit = limit
          /\ answers[p].resp.totalPages = Ceil(Len(catalog), limit)
          /\ Len(answers[p].result.Items) = Cardinality(PositionsOf(p))
          /\ \A k \in DOMAIN answers[p].result.Items :
                answers[p].result.Items[k] = catalog[answers[p].StartIndex + k]
    /\ \A p, r \in FetchedPages : p # r => PositionsOf(p) \cap PositionsOf(r) = {}
    /\ \A p \in FetchedPages :
          /\ PositionsOf(p) # {}
          /\ (p + 1) \in FetchedPages =>
                answers[p + 1].StartIndex = answers[p].StartIndex + answers[p].Limit
    /\ FetchedPages = 1..Ceil(Len(catalog), limit) =>
          UNION {PositionsOf(p) : p \in FetchedPages} = 0..(Len(catalog) - 1)

\* the two pages of a library of three items, pageSize 2, have been fetched:
\* a full window and a last window of one item
C28_Witness ==
    /\ Len(catalog) = 3 /\ limit = 2
    /\ FetchedPages = {1, 2}
    /\ PositionsOf(1) = {0, 1} /\ PositionsOf(2) = {2}
    /\ Len(answers[2].result.Items) = 1

\* the page was opened with source = emby:e2, Emby is enabled, and the user
\* has not acted yet
OpenedWithEmbyKey ==
    /\ nEvents = 0
    /\ searchParams.source = <<"emby", ":", "e2">>
    /\ runtimeConfig.EMBY_ENABLED

\* C29: opened with source = emby:<key> and Emby enabled, the session's
\* sourceType changes to emby only and its embyKey to <key> only (the first
\* entry of the source list does not take its place), and every emby listing
\* request that is issued targets instance <key>
C29_UrlKeySelectsInstance ==
    [][(OpenedWithEmbyKey /\ nEvents' = 0) =>
          /\ sourceType' \in {sourceType, "emby"}
          /\ embyKey' \in {embyKey, "e2"}
          /\ \A r \in requests' \ requests :
                r.sourceType = "emby" => r.embyKey = "e2"]_vars

\* what does hold: the same, when OpenList is enabled too, so that the URL
\* initialisation takes the branch that reads the parsed parameter
C29_UrlKeyWithOpenListEnabled ==
    [][(OpenedWithEmbyKey /\ nEvents' = 0 /\ runtimeConfig.OPENLIST_ENABLED) =>
          /\ sourceType' \in {sourceType, "emby"}
          /\ embyKey' \in {embyKey, "e2"}
          /\ \A r \in requests' \ requests :
                r.sourceType = "emby" => r.embyKey = "e2"]_vars

\* the step is a render or the completion of a navigation that follows the
\* user's selection of a source, nothing else having happened since
FollowsSourceSelection == ev.type = "source" /\ ev'.type = "source" /\ ~ev'.fresh

\* C30: the renders and the URL update that follow the user's selection of an
\* enabled source, with the re-run of the URL initialisation effect, leave
\* sourceType the selected source
C30_SelectedSourceStays ==
    [][FollowsSourceSelection => sourceType' = sourceType]_vars

\* what does hold: the same, unless OpenList is disabled and Emby enabled
C30_SelectedSourceStaysUnlessForced ==
    [][(FollowsSourceSelection
        /\ (runtimeConfig.OPENLIST_ENABLED \/ ~runtimeConfig.EMBY_ENABLED))
          => sourceType' = sourceType]_vars

\* the session when the first commit reaches the reset effects: the URL
\* initialisation, the source list and the URL update effects have run
MountBeforeResets ==
    LET c == Cur
        k1 == FetchVideosCleanup(FALSE, Cur)
        k2 == ObserverCleanup(TRUE, k1)
        e1 == UrlInitEffect(TRUE, c, k2)
        e2 == EmbySourcesEffect(TRUE, c, e1)
    IN UrlUpdateEffect(TRUE, c, e2)

\* what a reset effect may set
ResetFields(s) == <<s.page, s.videos, s.hasMore, s.error, s.loading, s.loadingMore>>

\* C31: in the first commit none of the three reset effects changes page,
\* videos, hasMore, error, loading or loadingMore
C31_ResetEffectsIdleOnMount ==
    [][(~mounted /\ mounted') =>
          LET c == Cur
              e3 == MountBeforeResets
              e4 == SourceResetEffect(TRUE, c, e3)
              e5 == ViewResetEffect(TRUE, c, e4)
              e6 == SortResetEffect(TRUE, c, e5)
          IN /\ ResetFields(e4) = ResetFields(e3)
             /\ ResetFields(e5) = ResetFields(e4)
             /\ ResetFields(e6) = ResetFields(e5)]_vars

\* what does hold: the first commit as a whole leaves page, videos, hasMore,
\* error and loadingMore at their initial values, and loading true exactly
\* when it has issued a request
C31_MountLeavesInitialValues ==
    [][(~mounted /\ mounted') =>
          /\ page' = 1 /\ videos' = <<>> /\ hasMore' /\ error' = ""
          /\ ~loadingMore'
          /\ loading' <=> requests' # {}]_vars

====
